---- MODULE Spec2Model ----
(***************************************************************************)
(* The POST /chat handler of the ARCO backend (src/unnamed/part_000, the   *)
(* variant with the answer-quality gate): validation, the retrieval call   *)
(* through fetchJson, context assembly, the completion call, the one-shot  *)
(* anti-disclaimer retry, the fallback composer, source-section            *)
(* enforcement and the response / error response.                          *)
(*                                                                         *)
(* JavaScript values are tagged records, one field name per type, so that  *)
(* values of different types can be compared.  Text is a sequence of       *)
(* one-character strings; a non-ASCII character is written as its entity   *)
(* name ("&bull;" is the bullet, "&oacute;" is o-acute) and counts as one  *)
(* character.                                                              *)
(***************************************************************************)
EXTENDS FiniteSets, Integers, Sequences, TLC

VARIABLES
    config,      \* process.env after destructuring: DEFAULT_PATH_PREFIX, TOP_K_DEFAULT
    pc,          \* per request: where the handler is suspended
    body,        \* per request: req.body
    retrieveBody,\* per request: the body sent to the proxy's /retrieve
    timer,       \* per request: fetchJson's timeout timer
    reply,       \* per request: how the fetch of fetchJson ended
    calls,       \* per request: outbound calls issued so far, by kind
    inflight,    \* per request: the outbound calls issued and not yet settled
    retrieve,    \* per request: what fetchJson returned
    caught,      \* per request: the exception the outer catch received
    sn,          \* per request: the snippet list
    files,       \* per request: the candidate file list
    context,     \* per request: the context block
    completion,  \* per request: outcome of the first completions.create
    retry,       \* per request: outcome of the second completions.create
    initial,     \* per request: `answer` after step 3 (the completion call)
    gated,       \* per request: `answer` after step 4 (the gate)
    response     \* per request: the HTTP response sent

vars == <<config, pc, body, retrieveBody, timer, reply, calls, inflight, retrieve, caught,
          sn, files, context, completion, retry, initial, gated, response>>

----------------------------------------------------------------------------
(* JavaScript values *)

Undef == [t |-> "undefined"]

Null == [t |-> "null"]

NaN == [t |-> "NaN"]

Str(s) == [t |-> "string", s |-> s]

Num(n) == [t |-> "number", n |-> n]

Bool(b) == [t |-> "boolean", b |-> b]

Arr(a) == [t |-> "array", a |-> a]

Obj(o) == [t |-> "object", o |-> o]

\* typeof x
TypeOf(x) ==
    CASE x.t = "NaN" -> "number"
      [] x.t \in {"null", "array"} -> "object"
      [] OTHER -> x.t

\* ToBoolean: what `!x`, `x || y` and `if (x)` test
Truthy(x) ==
    CASE x.t \in {"undefined", "null", "NaN"} -> FALSE
      [] x.t = "string" -> x.s # << >>
      [] x.t = "number" -> x.n # 0
      [] x.t = "boolean" -> x.b
      [] OTHER -> TRUE

\* a || b
Or(a, b) == IF Truthy(a) THEN a ELSE b

\* a ?? b
Coalesce(a, b) == IF a.t \in {"undefined", "null"} THEN b ELSE a

\* a?.p on an object value whose properties are the record a.o
Get(a, p) ==
    IF a.t = "object" /\ p \in DOMAIN a.o THEN a.o[p] ELSE Undef

----------------------------------------------------------------------------
(* Text *)

Min(a, b) == IF a < b THEN a ELSE b

\* \s of a regular expression, and the characters trim() strips
IsSpace(c) == c \in {" ", "\n", "\t", "\r"}

Digits == <<"0", "1", "2", "3", "4", "5", "6", "7", "8", "9">>

IsDigit(c) == \E i \in 1..10 : Digits[i] = c

DigitValue(c) == (CHOOSE i \in 1..10 : Digits[i] = c) - 1

Upper ==
    <<"A", "B", "C", "D", "E", "F", "G", "H", "I", "J", "K", "L", "M", "N", "O", "P", "Q",
      "R", "S", "T", "U", "V", "W", "X", "Y", "Z", "&Oacute;", "&Iacute;", "&Aacute;",
      "&Eacute;">>

Lower ==
    <<"a", "b", "c", "d", "e", "f", "g", "h", "i", "j", "k", "l", "m", "n", "o", "p", "q",
      "r", "s", "t", "u", "v", "w", "x", "y", "z", "&oacute;", "&iacute;", "&aacute;",
      "&eacute;">>

LowerChar(c) ==
    IF \E i \in DOMAIN Upper : Upper[i] = c
    THEN Lower[CHOOSE i \in DOMAIN Upper : Upper[i] = c]
    ELSE c

\* String.prototype.toLowerCase
toLowerCase(s) == [i \in 1..Len(s) |-> LowerChar(s[i])]

\* String.prototype.slice(0, n)
slice(s, n) == SubSeq(s, 1, Min(n, Len(s)))

\* whether p occurs in s at position i
MatchAt(s, p, i) ==
    /\ i + Len(p) - 1 <= Len(s)
    /\ \A k \in 1..Len(p) : s[i + k - 1] = p[k]

\* String.prototype.includes
includes(s, p) == \E i \in 1..(Len(s) + 1) : MatchAt(s, p, i)

\* String.prototype.trim
trim(s) ==
    IF \A i \in 1..Len(s) : IsSpace(s[i])
    THEN << >>
    ELSE LET a == CHOOSE i \in 1..Len(s) :
                      ~IsSpace(s[i]) /\ \A k \in 1..(i - 1) : IsSpace(s[k])
             b == CHOOSE i \in 1..Len(s) :
                      ~IsSpace(s[i]) /\ \A k \in (i + 1)..Len(s) : IsSpace(s[k])
         IN  SubSeq(s, a, b)

\* s.replace(/\s+/g, ' '): every run of white space becomes one blank
RECURSIVE collapseSpace(_)
collapseSpace(s) ==
    IF s = << >> THEN << >>
    ELSE IF IsSpace(s[1])
         THEN IF Len(s) > 1 /\ IsSpace(s[2])
              THEN collapseSpace(Tail(s))
              ELSE <<" ">> \o collapseSpace(Tail(s))
         ELSE <<s[1]>> \o collapseSpace(Tail(s))

\* Array.prototype.join on a list of texts
RECURSIVE join(_, _)
join(list, sep) ==
    IF list = << >> THEN << >>
    ELSE IF Len(list) = 1 THEN list[1]
         ELSE list[1] \o sep \o join(Tail(list), sep)

\* Array.prototype.filter(Boolean) on a list of texts
RECURSIVE filterNonEmpty(_)
filterNonEmpty(list) ==
    IF list = << >> THEN << >>
    ELSE IF list[1] = << >>
         THEN filterNonEmpty(Tail(list))
         ELSE <<list[1]>> \o filterNonEmpty(Tail(list))

\* the decimal digits of a natural number
RECURSIVE NatToText(_)
NatToText(n) ==
    IF n < 10 THEN <<Digits[n + 1]>>
    ELSE NatToText(n \div 10) \o <<Digits[(n % 10) + 1]>>

\* the value of a run of decimal digits
RECURSIVE DigitsToNat(_)
DigitsToNat(s) ==
    IF s = << >> THEN 0
    ELSE 10 * DigitsToNat(SubSeq(s, 1, Len(s) - 1)) + DigitValue(s[Len(s)])

\* String(x), as a template literal or toString() renders a value
ToText(x) ==
    CASE x.t = "string" -> x.s
      [] x.t = "number" ->
          IF x.n < 0 THEN <<"-">> \o NatToText(0 - x.n) ELSE NatToText(x.n)
      [] x.t = "undefined" -> <<"u", "n", "d", "e", "f", "i", "n", "e", "d">>
      [] x.t = "null" -> <<"n", "u", "l", "l">>
      [] x.t = "NaN" -> <<"N", "a", "N">>
      [] x.t = "boolean" ->
          IF x.b THEN <<"t", "r", "u", "e">> ELSE <<"f", "a", "l", "s", "e">>
      [] OTHER -> <<"[", "o", "b", "j", "e", "c", "t", " ", "O", "b", "j", "e", "c", "t", "]">>

\* Number(x); a numeric string is an optionally signed run of decimal
\* digits, surrounded by white space; an empty array gives 0 and any other
\* array or object NaN (arrays of one element are not fed to it)
Number(x) ==
    CASE x.t \in {"number", "NaN"} -> x
      [] x.t = "null" -> Num(0)
      [] x.t = "boolean" -> Num(IF x.b THEN 1 ELSE 0)
      [] x.t = "string" ->
          LET s == trim(x.s)
              neg == s # << >> /\ s[1] = "-"
              d == IF neg THEN Tail(s) ELSE s
          IN  IF s = << >> THEN Num(0)
              ELSE IF d # << >> /\ \A i \in 1..Len(d) : IsDigit(d[i])
                   THEN Num(IF neg THEN 0 - DigitsToNat(d) ELSE DigitsToNat(d))
                   ELSE NaN
      [] x.t = "array" /\ x.a = << >> -> Num(0)
      [] OTHER -> NaN

----------------------------------------------------------------------------
(* Program constants *)

\* `|| 10` of retrieveBody.topK
TopKLiteral == 10

\* maxCharsPerChunk of retrieveBody
MaxCharsPerChunk == 900

\* slice(0, 1000) of each snippet's text in the context
ContextSnippetCap == 1000

\* slice(0, 6) of the files in sourcesHint and appendSourcesIfMissing
SourcesCap == 6

\* slice(0, 5) of the snippets and of the files in buildFallbackFromSnippets
FallbackCap == 5

\* slice(0, 280) of each bullet in buildFallbackFromSnippets
BulletCap == 280

\* answer.length < 30 of the gate
MinAnswerLength == 30

\* slice(0, 400) of debug.contextPreview
PreviewCap == 400

\* the status of the validation response
BadRequest == 400

\* the status of the error response when the exception carries none
InternalError == 500

----------------------------------------------------------------------------
(* Literal texts of the program *)

\* the patterns of looksEvasive
patterns ==
    <<
      <<"n", "o", " ", "t", "e", "n", "g", "o", " ", "a", "c", "c", "e", "s", "o">>,
      <<"n", "o", " ", "c", "u", "e", "n", "t", "o", " ", "c", "o", "n", " ", "a", "c",
        "c", "e", "s", "o">>,
      <<"n", "o", " ", "h", "a", "y", " ", "i", "n", "f", "o", "r", "m", "a", "c", "i",
        "&oacute;", "n", " ", "e", "s", "p", "e", "c", "&iacute;", "f", "i", "c", "a">>,
      <<"n", "o", " ", "e", "n", "c", "u", "e", "n", "t", "r", "o", " ", "i", "n", "f",
        "o", "r", "m", "a", "c", "i", "&oacute;", "n">>,
      <<"n", "o", " ", "d", "i", "s", "p", "o", "n", "g", "o", " ", "d", "e", " ", "i",
        "n", "f", "o", "r", "m", "a", "c", "i", "&oacute;", "n">>,
      <<"n", "o", " ", "e", "s", "t", "&aacute;", " ", "d", "i", "s", "p", "o", "n", "i",
        "b", "l", "e">>,
      <<"n", "o", " ", "s", "u", "f", "i", "c", "i", "e", "n", "t", "e", " ", "i", "n",
        "f", "o", "r", "m", "a", "c", "i", "&oacute;", "n">>,
      <<"n", "o", " ", "t", "e", "n", "g", "o", " ", "s", "u", "f", "i", "c", "i", "e",
        "n", "t", "e", " ", "c", "o", "n", "t", "e", "x", "t", "o">>,
      <<"e", "l", " ", "c", "o", "n", "t", "e", "x", "t", "o", " ", "p", "r", "o", "p",
        "o", "r", "c", "i", "o", "n", "a", "d", "o", " ", "n", "o", " ", "i", "n", "c",
        "l", "u", "y", "e">>,
      <<"n", "o", " ", "p", "u", "e", "d", "o", " ", "a", "c", "c", "e", "d", "e", "r">>
    >>

\* the head of the fallback template, up to the bullets
FallbackHeader ==
    <<"*", "*", "R", "e", "s", "u", "m", "e", "n", "*", "*", "\n", "N", "o", " ", "f", "u",
      "e", " ", "p", "o", "s", "i", "b", "l", "e", " ", "g", "e", "n", "e", "r", "a", "r",
      " ", "r", "e", "s", "p", "u", "e", "s", "t", "a", " ", "c", "o", "m", "p", "l", "e",
      "t", "a", " ", "d", "e", "l", " ", "m", "o", "d", "e", "l", "o", ",", " ", "p", "e",
      "r", "o", " ", "a", "q", "u", "&iacute;", " ", "v", "a", "n", " ", "f", "r", "a",
      "g", "m", "e", "n", "t", "o", "s", " ", "r", "e", "l", "e", "v", "a", "n", "t", "e",
      "s", ".", "\n", "\n", "*", "*", "E", "v", "i", "d", "e", "n", "c", "i", "a", "*",
      "*", "\n">>

\* the placeholder for an empty bullet list
NoBullets ==
    <<"-", " ", "(", "n", "o", " ", "s", "e", " ", "e", "n", "c", "o", "n", "t", "r", "a",
      "r", "o", "n", " ", "f", "r", "a", "g", "m", "e", "n", "t", "o", "s", " ", "c", "o",
      "n", " ", "t", "e", "x", "t", "o", ")">>

\* the heading both the fallback template and appendSourcesIfMissing write
SourcesHeading ==
    <<"\n", "\n", "*", "*", "F", "u", "e", "n", "t", "e", "s", "*", "*", "\n">>

\* the placeholder for an empty source list
NoSources ==
    <<"&bull;", " ", "(", "s", "i", "n", " ", "f", "u", "e", "n", "t", "e", "s", ")">>

\* the prefix of a fallback bullet
BulletDash ==
    <<"-", " ">>

\* the prefix of a source line
BulletDot ==
    <<"&bull;", " ">>

\* the separator of the context block
ContextSeparator ==
    <<"\n", "-", "-", "-", "\n">>

\* the word the sources-heading pattern looks for
Fuentes ==
    <<"f", "u", "e", "n", "t", "e", "s">>

\* the message prefix of fetchJson's error
HttpPrefix ==
    <<"H", "T", "T", "P", " ">>

\* the message of the validation response
MissingQuery ==
    <<"F", "a", "l", "t", "a", " ", "\"", "q", "u", "e", "r", "y", "\"", " ", "(", "s",
      "t", "r", "i", "n", "g", ")">>

\* the default of retrieveBody.fileTypes
DefaultFileTypes ==
    Arr(<<Str(<<"p", "d", "f">>), Str(<<"d", "o", "c", "x">>), Str(<<"t", "x", "t">>)>>)

----------------------------------------------------------------------------
(* The utilities of the program *)

\* an exception: its message and the status and data fetchJson attaches
Exception(name, message, status, data) ==
    [name |-> name, message |-> message, status |-> status, data |-> data]

NoException == Exception("none", Str(<< >>), Undef, Undef)

TypeError(what) == Exception("TypeError", what, Undef, Undef)

\* resp.ok
RespOk(status) == 200 <= status /\ status <= 299

\* a fetchJson that raises on a status outside 2xx without attaching it
fetchJsonNoStatus(ended) ==
    CASE ended.k \in {"network", "abort"} ->
            [threw |-> TRUE, e |-> TypeError(Str(<<"f", "e", "t", "c", "h">>))]
      [] ended.k = "response" /\ ended.raw = "invalid" ->
            [threw |-> TRUE,
             e |-> Exception("SyntaxError", Str(<<"J", "S", "O", "N">>), Undef, Undef)]
      [] OTHER ->
            LET data == IF ended.raw = "empty"
                        THEN Obj([snippets |-> Undef, topFiles |-> Undef])
                        ELSE ended.value
            IN  IF ~RespOk(ended.status)
                THEN [threw |-> TRUE,
                      e |-> Exception("Error", Str(HttpPrefix \o NatToText(ended.status)),
                                      Undef, data)]
                ELSE [threw |-> FALSE, data |-> data]

\* fetchJson: fetch, read the text, parse it, raise on a status outside 2xx.
\* ended.k is "network" (fetch rejects), "abort" (the signal was aborted) or
\* "response"; a response has a status and a raw body that is empty, is not
\* JSON ("invalid"), or parses to ended.value.
fetchJson(ended) ==
    CASE ended.k = "network" ->
            [threw |-> TRUE, e |-> TypeError(Str(<<"f", "e", "t", "c", "h">>))]
      [] ended.k = "abort" ->
            [threw |-> TRUE,
             e |-> Exception("AbortError", Str(<<"a", "b", "o", "r", "t">>), Undef, Undef)]
      [] ended.k = "response" /\ ended.raw = "invalid" ->
            [threw |-> TRUE,
             e |-> Exception("SyntaxError", Str(<<"J", "S", "O", "N">>), Undef, Undef)]
      [] OTHER ->
            LET data == IF ended.raw = "empty"
                        THEN Obj([snippets |-> Undef, topFiles |-> Undef])
                        ELSE ended.value
            IN  IF ~RespOk(ended.status)
                THEN [threw |-> TRUE,
                      e |-> Exception("Error", Str(HttpPrefix \o NatToText(ended.status)),
                                      Num(ended.status), data)]
                ELSE [threw |-> FALSE, data |-> data]

\* reading a property of x raises a TypeError
Nullish(x) == x.t \in {"undefined", "null"}

\* the first n elements of a list
Take(list, n) == SubSeq(list, 1, Min(n, Len(list)))

\* whether buildFallbackFromSnippets raises: s.text of a null snippet,
\* replace() of a text that is truthy and no string, f.name of a null file
FallbackThrows(snippets, fileList) ==
    \/ \E i \in 1..Min(FallbackCap, Len(snippets)) :
          \/ Nullish(snippets[i])
          \/ LET text == Get(snippets[i], "text")
             IN  Truthy(text) /\ text.t # "string"
    \/ \E i \in 1..Min(FallbackCap, Len(fileList)) : Nullish(fileList[i])

FallbackBullet(s) ==
    BulletDash \o slice(collapseSpace(Or(Get(s, "text"), Str(<< >>)).s), BulletCap)

FallbackSource(f) ==
    BulletDot \o ToText(Get(f, "name")) \o <<" ", "(">> \o ToText(Get(f, "webUrl")) \o <<")">>

\* buildFallbackFromSnippets, where it does not raise
buildFallbackFromSnippets(snippets, fileList) ==
    LET first == Take(snippets, FallbackCap)
        bullets == join([i \in 1..Len(first) |-> FallbackBullet(first[i])], <<"\n">>)
        top == Take(fileList, FallbackCap)
        srcs == join([i \in 1..Len(top) |-> FallbackSource(top[i])], <<"\n">>)
    IN  FallbackHeader
          \o (IF bullets # << >> THEN bullets ELSE NoBullets)
          \o SourcesHeading
          \o (IF srcs # << >> THEN srcs ELSE NoSources)

\* a looksEvasive that compares without lowering the case
looksEvasiveCaseSensitive(answer) ==
    \E i \in DOMAIN patterns : includes(answer, patterns[i])

\* looksEvasive
looksEvasive(answer) ==
    LET a == toLowerCase(answer)
    IN  \E i \in DOMAIN patterns : includes(a, patterns[i])

\* hasSourcesSection: /(^|\n)\s*\*\*?fuentes\*?\*:?/i
\* at the start of the text or after a line feed: white space, one or two
\* stars, the word in any case, one or two stars (the optional colon adds
\* nothing to a search)
hasSourcesSection(answer) ==
    LET a == toLowerCase(answer)
        n == Len(a)
    IN  \E i \in 1..n :
          /\ i = 1 \/ a[i - 1] = "\n"
          /\ \E j \in i..n :
                /\ \A k \in i..(j - 1) : IsSpace(a[k])
                /\ a[j] = "*"
                /\ \E w \in {j + 1, j + 2} :
                      /\ w = j + 2 => (j + 1 <= n /\ a[j + 1] = "*")
                      /\ MatchAt(a, Fuentes, w)
                      /\ w + Len(Fuentes) <= n
                      /\ a[w + Len(Fuentes)] = "*"

AppendedSource(f) ==
    BulletDot \o ToText(Get(f, "name"))
      \o (IF Truthy(Get(f, "webUrl"))
          THEN <<" ", "(">> \o ToText(Get(f, "webUrl")) \o <<")">>
          ELSE << >>)

\* an appendSourcesIfMissing whose test of the file list lost its negation
appendSourcesIfNoFiles(answer, fileList) ==
    IF hasSourcesSection(answer) \/ Len(fileList) # 0
    THEN answer
    ELSE answer \o SourcesHeading

\* appendSourcesIfMissing
appendSourcesIfMissing(answer, fileList) ==
    IF hasSourcesSection(answer) \/ Len(fileList) = 0
    THEN answer
    ELSE LET top == Take(fileList, SourcesCap)
             list == join([i \in 1..Len(top) |-> AppendedSource(top[i])], <<"\n">>)
         IN  answer \o SourcesHeading \o list

----------------------------------------------------------------------------
(* Bounds and inputs *)

\* the longest snippet list the proxy returns
MaxSnippets == 7

\* the longest candidate file list the proxy returns
MaxFiles == 7

\* the request slots; requests on different slots run concurrently
RequestIds == {1, 2}

\* the slots Spec uses: one request at a time
Serial == {1}

\* a model answer of 29 characters, without a sources heading
Text29 ==
    <<"S", "o", "n", " ", "1", "5", " ", "d", "i", "a", "s", " ", "h", "a", "b", "i", "l",
      "e", "s", " ", "p", "o", "r", " ", "c", "i", "c", "l", "o">>

\* a model answer of 30 characters, without a sources heading
Text30 ==
    <<"S", "o", "n", " ", "1", "5", " ", "d", "i", "a", "s", " ", "h", "a", "b", "i", "l",
      "e", "s", " ", "p", "o", "r", " ", "c", "i", "c", "l", "o", ".">>

\* a long model answer holding an evasive phrase in mixed case
TextEvasive ==
    <<"L", "o", " ", "s", "i", "e", "n", "t", "o", ",", " ", "N", "o", " ", "T", "e", "n",
      "g", "o", " ", "A", "c", "c", "e", "s", "o", " ", "a", " ", "e", "s", "o", "s", " ",
      "d", "o", "c", "u", "m", "e", "n", "t", "o", "s", " ", "i", "n", "t", "e", "r", "n",
      "o", "s", ".">>

\* a long model answer with its own sources heading
TextWithSources ==
    <<"*", "*", "R", "e", "s", "u", "m", "e", "n", "*", "*", "\n", "S", "o", "n", " ", "1",
      "5", " ", "d", "i", "a", "s", " ", "h", "a", "b", "i", "l", "e", "s", ".", "\n",
      "\n", "*", "*", "F", "u", "e", "n", "t", "e", "s", "*", "*", "\n", "&bull;", " ",
      "M", "a", "n", "u", "a", "l", "_", "R", "H", ".", "p", "d", "f">>

\* a long model answer whose sources heading has its colon inside the stars
TextSourcesColon ==
    <<"*", "*", "R", "e", "s", "u", "m", "e", "n", "*", "*", "\n", "S", "o", "n", " ", "1",
      "5", " ", "d", "i", "a", "s", " ", "h", "a", "b", "i", "l", "e", "s", ".", "\n",
      "\n", "*", "*", "F", "u", "e", "n", "t", "e", "s", ":", "*", "*", "\n", "&bull;",
      " ", "M", "a", "n", "u", "a", "l", "_", "R", "H", ".", "p", "d", "f">>

\* a query
QueryText ==
    <<"v", "a", "c", "a", "c", "i", "o", "n", "e", "s", "?">>

\* a passage, with white space around it
SnippetText ==
    <<" ", "L", "o", "s", " ", "e", "m", "p", "l", "e", "a", "d", "o", "s", " ", "t", "i",
      "e", "n", "e", "n", " ", "1", "5", " ", "d", "i", "a", "s", ".", "\n">>

\* a configured default prefix
DocsPrefix ==
    <<"/", "d", "o", "c", "s">>

\* a request prefix, with white space around it
RequestPrefix ==
    <<" ", "/", "r", "h", " ">>

\* a file name
FileName ==
    <<"M", "a", "n", "u", "a", "l", "_", "R", "H", ".", "p", "d", "f">>

\* a file URL
FileUrl ==
    <<"h", "t", "t", "p", "s", ":", "/", "/", "s", "p", "/", "r", "h">>

\* process.env: unset (the defaults of the destructuring), or set
Configs ==
    { [DEFAULT_PATH_PREFIX |-> Str(<< >>), TOP_K_DEFAULT |-> Str(<<"1", "0">>)],
      [DEFAULT_PATH_PREFIX |-> Str(DocsPrefix), TOP_K_DEFAULT |-> Str(<<"2", "0">>)] }

ChatRequest(query, pathPrefix, topK, fileTypes) ==
    [query |-> query, pathPrefix |-> pathPrefix, topK |-> topK, fileTypes |-> fileTypes]

\* request bodies: queries that fail validation; then a valid query with
\* each kind of pathPrefix, of topK and of fileTypes
ChatRequests ==
    { ChatRequest(q, Undef, Undef, Undef) :
        q \in {Undef, Null, Str(<< >>), Num(5), Num(0), Str(QueryText)} }
    \cup { ChatRequest(Str(QueryText), p, Undef, Undef) :
        p \in {Null, Str(<< >>), Str(<<" ", " ">>), Str(RequestPrefix), Num(5)} }
    \cup { ChatRequest(Str(QueryText), Undef, k, Undef) :
        k \in {Null, Num(0), Num(0 - 5), Num(5), Str(<<"7">>), Str(<<"a", "b", "c">>)} }
    \cup { ChatRequest(Str(QueryText), Undef, Undef, f) :
        f \in {Arr(<< >>), Arr(<<Str(<<"m", "d">>)>>), Str(<<"p", "d", "f">>)} }

Snippet(text) == Obj([text |-> text])

File(name, webUrl) == Obj([name |-> name, webUrl |-> webUrl])

\* snippet lists: empty; one passage; one blank passage; a null element; a
\* numeric text; the longest list
SnippetLists ==
    { << >>,
      <<Snippet(Str(SnippetText))>>,
      <<Snippet(Str(<<" ", " ">>))>>,
      <<Null>>,
      <<Snippet(Num(123))>>,
      [i \in 1..MaxSnippets |-> Snippet(Str(<<"F">> \o NatToText(i)))] }

\* file lists: empty; one file; a file without URL; a null element; the
\* longest list
FileLists ==
    { << >>,
      <<File(Str(FileName), Str(FileUrl))>>,
      <<File(Str(FileName), Undef)>>,
      <<Null>>,
      [i \in 1..MaxFiles |-> File(Str(<<"D">> \o NatToText(i)), Str(<<"u">> \o NatToText(i)))] }

Response(status, raw, value) == [k |-> "response", status |-> status, raw |-> raw, value |-> value]

\* what the retrieval call can end in, other than the timeout
RetrieveReplies ==
    { [k |-> "network"] }
    \cup { Response(404, "json", Obj([error |-> Str(<<"n", "o">>)])),
           Response(401, "json", Str(<<"n", "o">>)),
           Response(502, "invalid", Undef),
           Response(500, "empty", Undef),
           Response(200, "invalid", Undef),
           Response(200, "empty", Undef),
           Response(200, "json", Null) }
    \cup { Response(200, "json", Obj([snippets |-> Arr(s), topFiles |-> Arr(f)])) :
             s \in SnippetLists, f \in FileLists }

Raise == [k |-> "raise"]

Reply(content) == [k |-> "reply", content |-> content]

NoCall == [k |-> "none"]

\* what the completion call can end in: an error; a reply without choices;
\* a reply with text
CompletionReplies ==
    { Raise, Reply(Undef), Reply(Str(Text29)), Reply(Str(Text30)), Reply(Str(TextEvasive)),
      Reply(Str(TextWithSources)), Reply(Str(TextSourcesColon)) }

\* what the retry call can end in
RetryReplies ==
    { Raise, Reply(Str(<<" ", " ">>)), Reply(Str(Text30)), Reply(Str(TextEvasive)),
      Reply(Str(TextWithSources)) }

----------------------------------------------------------------------------
(* The steps of the handler *)

\* a validation that forgets the typeof test
ValidQueryTruthyOnly(query) == Truthy(query)

\* the negation of `!query || typeof query !== 'string'`
ValidQuery(query) == Truthy(query) /\ TypeOf(query) = "string"

\* (pathPrefix ?? DEFAULT_PATH_PREFIX)?.trim()
effectivePathPrefix(b, cfg) ==
    LET p == Coalesce(b.pathPrefix, cfg.DEFAULT_PATH_PREFIX)
    IN  IF p.t = "string"
        THEN [threw |-> FALSE, value |-> Str(trim(p.s))]
        ELSE [threw |-> TRUE, e |-> TypeError(Str(<<"t", "r", "i", "m">>))]

\* Number(topK || TOP_K_DEFAULT) || 10
ResolveTopK(topK, cfg) == Or(Number(Or(topK, cfg.TOP_K_DEFAULT)), Num(TopKLiteral))

\* Array.isArray(fileTypes) && fileTypes.length ? fileTypes : [...]
ResolveFileTypes(fileTypes) ==
    IF fileTypes.t = "array" /\ Len(fileTypes.a) # 0 THEN fileTypes ELSE DefaultFileTypes

\* retrieveBody; pathPrefix is set only if the effective prefix is truthy
RetrieveBody(b, cfg, prefix) ==
    LET base == [query |-> b.query,
                 topK |-> ResolveTopK(b.topK, cfg),
                 maxCharsPerChunk |-> MaxCharsPerChunk,
                 fileTypes |-> ResolveFileTypes(b.fileTypes),
                 includeFileText |-> FALSE]
    IN  IF Truthy(prefix) THEN base @@ [pathPrefix |-> prefix] ELSE base

\* a list property of the retrieval result, or [] if it is no array
ListOf(result, p) ==
    LET v == Get(result, p) IN IF v.t = "array" THEN v.a ELSE << >>

\* the text of a snippet in the context
ContextPiece(s) ==
    slice(trim(ToText(Or(Get(s, "text"), Str(<< >>)))), ContextSnippetCap)

\* the context block
Context(snippets) ==
    join(filterNonEmpty([i \in 1..Len(snippets) |-> ContextPiece(snippets[i])]),
         ContextSeparator)

\* whether building sourcesHint raises: f.name of a null file
SourcesHintThrows(fileList) ==
    \E i \in 1..Min(SourcesCap, Len(fileList)) : Nullish(fileList[i])

\* completion.choices?.[0]?.message?.content?.trim() || '', and '' when the
\* call or trim() raises
InitialAnswer(outcome) ==
    IF outcome.k = "reply" /\ outcome.content.t = "string"
    THEN trim(outcome.content.s)
    ELSE << >>

\* a gate that does not look at the context
NeedsRetryAnyContext(ctx, answer) ==
    looksEvasive(answer) \/ Len(answer) < MinAnswerLength

\* the condition of the anti-disclaimer retry
NeedsRetry(ctx, answer) ==
    /\ ctx # << >>
    /\ looksEvasive(answer) \/ Len(answer) < MinAnswerLength

\* the answer after the retry: its trimmed text if that is non-empty
AfterRetry(outcome, answer) ==
    IF outcome.k = "reply" /\ outcome.content.t = "string" /\ trim(outcome.content.s) # << >>
    THEN trim(outcome.content.s)
    ELSE answer

\* the validation response
ValidationResponse ==
    [http |-> BadRequest, body |-> [ok |-> FALSE, error |-> Str(MissingQuery)]]

\* a catch that always answers 500 while reporting the failure's status
ErrorResponseAlways500(e) ==
    [http |-> InternalError,
     body |-> [ok |-> FALSE,
               error |-> e.message,
               status |-> Or(e.status, Num(InternalError)),
               details |-> Or(e.data, Null)]]

\* the response of the outer catch
ErrorResponse(e) ==
    [http |-> Or(e.status, Num(InternalError)).n,
     body |-> [ok |-> FALSE,
               error |-> e.message,
               status |-> Or(e.status, Num(InternalError)),
               details |-> Or(e.data, Null)]]

\* the success response
SuccessResponse(rb, prefix, answer, snippets, fileList, ctx) ==
    [http |-> 200,
     body |-> [ok |-> TRUE,
               query |-> rb.query,
               used |-> [pathPrefix |-> Or(prefix, Null)] @@ rb,
               answer |-> Str(answer),
               snippets |-> Arr(snippets),
               topFiles |-> Arr(fileList),
               debug |-> [contextPreview |-> Str(slice(ctx, PreviewCap)),
                          snippetsCount |-> Len(snippets)]]]

\* a step 5 that forgets the fallback
FinalizeNoFallback(answer, snippets, fileList) ==
    [threw |-> FALSE, answer |-> appendSourcesIfMissing(answer, fileList)]

\* step 5: the fallback, which can raise, or the sources section
Finalize(answer, snippets, fileList) ==
    IF answer = << >>
    THEN IF FallbackThrows(snippets, fileList)
         THEN [threw |-> TRUE, e |-> TypeError(Str(<<"t", "e", "x", "t">>))]
         ELSE [threw |-> FALSE,
               answer |-> buildFallbackFromSnippets(snippets, fileList)]
    ELSE [threw |-> FALSE, answer |-> appendSourcesIfMissing(answer, fileList)]

----------------------------------------------------------------------------
(* State *)

NoRetrieveBody == [query |-> Undef]

NoCalls == [retrieve |-> 0, completion |-> 0, retry |-> 0]

NoResponse == [http |-> 0, body |-> [ok |-> FALSE]]

NoRequest == ChatRequest(Undef, Undef, Undef, Undef)

Init ==
    /\ config \in Configs
    /\ pc = [r \in RequestIds |-> "idle"]
    /\ body = [r \in RequestIds |-> NoRequest]
    /\ retrieveBody = [r \in RequestIds |-> NoRetrieveBody]
    /\ timer = [r \in RequestIds |-> "unset"]
    /\ reply = [r \in RequestIds |-> NoCall]
    /\ calls = [r \in RequestIds |-> NoCalls]
    /\ inflight = [r \in RequestIds |-> {}]
    /\ retrieve = [r \in RequestIds |-> Undef]
    /\ caught = [r \in RequestIds |-> NoException]
    /\ sn = [r \in RequestIds |-> << >>]
    /\ files = [r \in RequestIds |-> << >>]
    /\ context = [r \in RequestIds |-> << >>]
    /\ completion = [r \in RequestIds |-> NoCall]
    /\ retry = [r \in RequestIds |-> NoCall]
    /\ initial = [r \in RequestIds |-> << >>]
    /\ gated = [r \in RequestIds |-> << >>]
    /\ response = [r \in RequestIds |-> NoResponse]

\* a call is issued: it is in flight from here on
Issued(pending, call) == pending \cup {call}

\* an await that resumes although its call has not settled
SettledNotAwaited(pending, call) == pending

\* the await of a call resumes: the call has settled
Settled(pending, call) == pending \ {call}

\* the outer catch: the error response ends the request
Catch(r, e) ==
    /\ caught' = [caught EXCEPT ![r] = e]
    /\ response' = [response EXCEPT ![r] = ErrorResponse(e)]
    /\ pc' = [pc EXCEPT ![r] = "done"]

\* steps 5 and 6 on the answer the gate left
Respond(r, answer, snippets, fileList, ctx) ==
    LET final == Finalize(answer, snippets, fileList)
    IN  /\ gated' = [gated EXCEPT ![r] = answer]
        /\ IF final.threw
           THEN Catch(r, final.e)
           ELSE /\ response' = [response EXCEPT ![r] =
                      SuccessResponse(retrieveBody[r],
                                      effectivePathPrefix(body[r], config).value,
                                      final.answer, snippets, fileList, ctx)]
                /\ pc' = [pc EXCEPT ![r] = "done"]
                /\ UNCHANGED caught

\* A request arrives on a free slot: validation, the effective prefix, the
\* retrieval body, and the retrieval call is issued.
ReceiveOf(r, requests) ==
    /\ pc[r] \in {"idle", "done"}
    /\ \E b \in requests :
        LET valid == ValidQuery(b.query)
            prefix == effectivePathPrefix(b, config)
        IN  /\ body' = [body EXCEPT ![r] = b]
            /\ reply' = [reply EXCEPT ![r] = NoCall]
            /\ retrieve' = [retrieve EXCEPT ![r] = Undef]
            /\ sn' = [sn EXCEPT ![r] = << >>]
            /\ files' = [files EXCEPT ![r] = << >>]
            /\ context' = [context EXCEPT ![r] = << >>]
            /\ completion' = [completion EXCEPT ![r] = NoCall]
            /\ retry' = [retry EXCEPT ![r] = NoCall]
            /\ initial' = [initial EXCEPT ![r] = << >>]
            /\ gated' = [gated EXCEPT ![r] = << >>]
            /\ IF ~valid
               THEN /\ response' = [response EXCEPT ![r] = ValidationResponse]
                    /\ pc' = [pc EXCEPT ![r] = "done"]
                    /\ caught' = [caught EXCEPT ![r] = NoException]
                    /\ retrieveBody' = [retrieveBody EXCEPT ![r] = NoRetrieveBody]
                    /\ calls' = [calls EXCEPT ![r] = NoCalls]
                    /\ inflight' = [inflight EXCEPT ![r] = {}]
                    /\ timer' = [timer EXCEPT ![r] = "unset"]
               ELSE IF prefix.threw
               THEN /\ Catch(r, prefix.e)
                    /\ retrieveBody' = [retrieveBody EXCEPT ![r] = NoRetrieveBody]
                    /\ calls' = [calls EXCEPT ![r] = NoCalls]
                    /\ inflight' = [inflight EXCEPT ![r] = {}]
                    /\ timer' = [timer EXCEPT ![r] = "unset"]
               ELSE /\ retrieveBody' = [retrieveBody EXCEPT ![r] =
                                          RetrieveBody(b, config, prefix.value)]
                    /\ calls' = [calls EXCEPT ![r] = [NoCalls EXCEPT !.retrieve = @ + 1]]
                    /\ inflight' = [inflight EXCEPT ![r] = Issued({}, "retrieve")]
                    /\ timer' = [timer EXCEPT ![r] = "armed"]
                    /\ pc' = [pc EXCEPT ![r] = "retrieving"]
                    /\ caught' = [caught EXCEPT ![r] = NoException]
                    /\ response' = [response EXCEPT ![r] = NoResponse]
    /\ UNCHANGED config

Receive(r) == ReceiveOf(r, ChatRequests)

\* fetchJson settles: its timer is cleared; a failure goes to the outer
\* catch; a result is turned into snippets, context and files, and the
\* completion call is issued.
Settle(r, ended) ==
    LET result == fetchJson(ended)
    IN  /\ reply' = [reply EXCEPT ![r] = ended]
        /\ timer' = [timer EXCEPT ![r] = "cleared"]
        /\ IF result.threw
           THEN /\ Catch(r, result.e)
                /\ inflight' = [inflight EXCEPT ![r] = Settled(@, "retrieve")]
                /\ UNCHANGED <<retrieve, sn, files, context, calls>>
           ELSE LET snippets == ListOf(result.data, "snippets")
                    fileList == ListOf(result.data, "topFiles")
                IN  /\ retrieve' = [retrieve EXCEPT ![r] = result.data]
                    /\ sn' = [sn EXCEPT ![r] = snippets]
                    /\ context' = [context EXCEPT ![r] = Context(snippets)]
                    /\ files' = [files EXCEPT ![r] = fileList]
                    /\ IF SourcesHintThrows(fileList)
                       THEN /\ Catch(r, TypeError(Str(<<"n", "a", "m", "e">>)))
                            /\ inflight' = [inflight EXCEPT ![r] = Settled(@, "retrieve")]
                            /\ UNCHANGED calls
                       ELSE /\ calls' = [calls EXCEPT ![r].completion = @ + 1]
                            /\ inflight' = [inflight EXCEPT ![r] =
                                  Issued(Settled(@, "retrieve"), "completion")]
                            /\ pc' = [pc EXCEPT ![r] = "completing"]
                            /\ UNCHANGED <<caught, response>>
        /\ UNCHANGED <<config, body, retrieveBody, completion, retry, initial, gated>>

\* The proxy answers, or the connection fails.
RetrieveReplyOf(r, replies) ==
    /\ pc[r] = "retrieving"
    /\ \E ended \in replies : Settle(r, ended)

RetrieveReply(r) == RetrieveReplyOf(r, RetrieveReplies)

\* The timer of fetchJson fires first: the signal is aborted and fetch rejects.
RetrieveTimeout(r) ==
    /\ pc[r] = "retrieving"
    /\ timer[r] = "armed"
    /\ Settle(r, [k |-> "abort"])

\* The completion call settles: the answer is extracted; the gate issues the
\* retry, or the handler finishes.
CompletionReplyOf(r, outcomes) ==
    /\ pc[r] = "completing"
    /\ \E outcome \in outcomes :
        LET answer == InitialAnswer(outcome)
        IN  /\ completion' = [completion EXCEPT ![r] = outcome]
            /\ initial' = [initial EXCEPT ![r] = answer]
            /\ IF NeedsRetry(context[r], answer)
               THEN /\ calls' = [calls EXCEPT ![r].retry = @ + 1]
                    /\ inflight' = [inflight EXCEPT ![r] =
                          Issued(Settled(@, "completion"), "retry")]
                    /\ pc' = [pc EXCEPT ![r] = "retrying"]
                    /\ UNCHANGED <<gated, caught, response>>
               ELSE /\ Respond(r, answer, sn[r], files[r], context[r])
                    /\ inflight' = [inflight EXCEPT ![r] = Settled(@, "completion")]
                    /\ UNCHANGED calls
    /\ UNCHANGED <<config, body, retrieveBody, timer, reply, retrieve, sn, files, context,
                   retry>>

CompletionReply(r) == CompletionReplyOf(r, CompletionReplies)

\* The retry call settles: its text, if any, replaces the answer, and the
\* handler finishes.
RetryReplyOf(r, outcomes) ==
    /\ pc[r] = "retrying"
    /\ \E outcome \in outcomes :
        /\ retry' = [retry EXCEPT ![r] = outcome]
        /\ Respond(r, AfterRetry(outcome, initial[r]), sn[r], files[r], context[r])
    /\ inflight' = [inflight EXCEPT ![r] = Settled(@, "retry")]
    /\ UNCHANGED <<config, body, retrieveBody, timer, reply, calls, retrieve, sn, files,
                   context, completion, initial>>

RetryReply(r) == RetryReplyOf(r, RetryReplies)

Next ==
    \E r \in Serial :
        \/ Receive(r)
        \/ RetrieveReply(r)
        \/ RetrieveTimeout(r)
        \/ CompletionReply(r)
        \/ RetryReply(r)

Spec == Init /\ [][Next]_vars

\* inputs of the concurrent requests: a rejected and an accepted body; a
\* failed, an empty and a full retrieval; a failed, a short and a long
\* completion; a failed and a long retry
ConcurrentRequests ==
    { ChatRequest(Undef, Undef, Undef, Undef), ChatRequest(Str(QueryText), Undef, Undef, Undef) }

ConcurrentRetrieveReplies ==
    { [k |-> "network"],
      Response(200, "empty", Undef),
      Response(200, "json",
               Obj([snippets |-> Arr(<<Snippet(Str(SnippetText))>>),
                    topFiles |-> Arr(<<File(Str(FileName), Str(FileUrl))>>)])) }

ConcurrentCompletionReplies == { Raise, Reply(Str(Text29)), Reply(Str(Text30)) }

ConcurrentRetryReplies == { Raise, Reply(Str(Text30)) }

\* Requests on every slot: the event loop runs one step of one handler at a
\* time, in any order.
NextConcurrent ==
    \E r \in RequestIds :
        \/ ReceiveOf(r, ConcurrentRequests)
        \/ RetrieveReplyOf(r, ConcurrentRetrieveReplies)
        \/ RetrieveTimeout(r)
        \/ CompletionReplyOf(r, ConcurrentCompletionReplies)
        \/ RetryReplyOf(r, ConcurrentRetryReplies)

SpecConcurrent == Init /\ [][NextConcurrent]_vars

\* The event loop runs a timer's callback once its delay has passed: the
\* armed timer of fetchJson fires unless the call settles first. Nothing
\* makes a collaborator reply.
SpecLive == Init /\ [][Next]_vars /\ \A r \in Serial : WF_vars(RetrieveTimeout(r))

----------------------------------------------------------------------------
(* Properties *)

\* the outbound calls a request has issued
TotalCalls(r) == calls[r].retrieve + calls[r].completion + calls[r].retry

\* the query is missing, empty or no string
BadQuery(r) ==
    \/ body[r].query.t # "string"
    \/ body[r].query.t = "string" /\ body[r].query.s = << >>

\* C1: a request whose query is missing, empty or not a string is answered
\* with HTTP 400 and ok:false in the step that receives it, and no outbound
\* call (retrieval, completion, retry) is issued for it.
C1_InvalidQueryRejected ==
    \A r \in RequestIds :
        (pc[r] # "idle" /\ BadQuery(r)) =>
            /\ pc[r] = "done"
            /\ response[r].http = 400
            /\ response[r].body.ok = FALSE
            /\ TotalCalls(r) = 0
            /\ timer[r] = "unset"

\* a request whose query is a number has been rejected
C1_Witness ==
    \E r \in RequestIds :
        /\ pc[r] = "done"
        /\ body[r].query = Num(5)
        /\ response[r].http = 400
        /\ TotalCalls(r) = 0

\* the retrieval call of r has failed
RetrievalFailed(r) ==
    \/ reply[r].k \in {"network", "abort"}
    \/ reply[r].k = "response" /\ (~RespOk(reply[r].status) \/ reply[r].raw = "invalid")

\* C2: when the retrieval call fails (network error, timeout, status
\* outside 2xx, unparsable body) the handler answers at once with ok:false
\* and the status the failure carries, or 500 when it carries none: the
\* proxy's status for a reply outside 2xx whose body parses, 500 for a
\* network error, a timeout and an unparsable body.  The retrieval call is
\* not repeated and no completion call is issued.
C2_RetrievalFailure ==
    \A r \in RequestIds :
        RetrievalFailed(r) =>
            /\ pc[r] = "done"
            /\ response[r].body.ok = FALSE
            /\ response[r].http =
                 IF caught[r].status.t = "number" THEN caught[r].status.n ELSE 500
            /\ reply[r].k \in {"network", "abort"} => response[r].http = 500
            /\ (reply[r].k = "response" /\ reply[r].raw = "invalid") =>
                 response[r].http = 500
            /\ (reply[r].k = "response" /\ reply[r].raw # "invalid") =>
                 response[r].http = reply[r].status
            /\ calls[r] = [retrieve |-> 1, completion |-> 0, retry |-> 0]

\* the proxy has answered 404 and the request has been answered 404
C2_Witness ==
    \E r \in RequestIds :
        /\ pc[r] = "done"
        /\ reply[r].k = "response"
        /\ reply[r].status = 404
        /\ response[r].http = 404
        /\ response[r].body.ok = FALSE
        /\ calls[r].completion = 0

\* the retrieval call of r has returned a result
RetrievalSucceeded(r) ==
    reply[r].k = "response" /\ RespOk(reply[r].status) /\ reply[r].raw # "invalid"

\* C3: every request with a valid query whose retrieval call succeeds is
\* answered HTTP 200 with ok:true, whatever the completion and retry calls
\* end in and whatever snippet and file lists the result carries.
C3_SuccessAfterRetrieval ==
    \A r \in RequestIds :
        (pc[r] = "done" /\ RetrievalSucceeded(r)) =>
            /\ response[r].http = 200
            /\ response[r].body.ok = TRUE

\* the model call of r has failed entirely
ModelFailed(r) == completion[r] = Raise /\ retry[r] \in {NoCall, Raise}

\* the sentence that opens the fallback answer
FallbackSentence == SubSeq(FallbackHeader, 13, 102)

\* C4: when the completion call raises, and the retry call too if one was
\* made, the answer of the success response is the fallback composer's
\* output: non-empty, holding the fallback header; with no snippets and no
\* files it holds both placeholder lines.
C4_FallbackOnModelFailure ==
    \A r \in RequestIds :
        (pc[r] = "done" /\ response[r].body.ok /\ ModelFailed(r)) =>
            LET answer == response[r].body.answer.s
            IN  /\ answer # << >>
                /\ answer = buildFallbackFromSnippets(sn[r], files[r])
                /\ MatchAt(answer, FallbackHeader, 1)
                /\ includes(answer, FallbackSentence)
                /\ (sn[r] = << >> /\ files[r] = << >>) =>
                      /\ includes(answer, NoBullets)
                      /\ includes(answer, NoSources)
                      /\ answer = FallbackHeader \o NoBullets \o SourcesHeading \o NoSources

\* the model call failed on a result without snippets and files, and the
\* answer is the template with both placeholders
C4_Witness ==
    \E r \in RequestIds :
        /\ pc[r] = "done"
        /\ response[r].body.ok
        /\ completion[r] = Raise
        /\ sn[r] = << >>
        /\ files[r] = << >>
        /\ response[r].body.answer.s = FallbackHeader \o NoBullets \o SourcesHeading \o NoSources

\* the completion and the retry both raised and the answer is the fallback
C4_WitnessRetry ==
    \E r \in RequestIds :
        /\ pc[r] = "done"
        /\ response[r].body.ok
        /\ completion[r] = Raise
        /\ retry[r] = Raise
        /\ MatchAt(response[r].body.answer.s, FallbackHeader, 1)

\* the answer holds one of the evasive phrases, in any case
HoldsEvasivePhrase(answer) ==
    \E i \in DOMAIN patterns : includes(toLowerCase(answer), patterns[i])

\* the trimmed text of a retry reply, or nothing
RetryText(outcome) ==
    IF outcome.k = "reply" /\ outcome.content.t = "string"
    THEN trim(outcome.content.s)
    ELSE << >>

\* C5: when the context is non-empty and the initial answer holds an
\* evasive phrase (in any case) or is shorter than 30 characters, exactly
\* one retry call is made; the retry's text replaces the answer when it is
\* non-empty, and the initial answer is kept when the retry raises or
\* returns no text.
C5_RetryOnEvasive ==
    \A r \in RequestIds :
        ( /\ completion[r] # NoCall
          /\ context[r] # << >>
          /\ HoldsEvasivePhrase(initial[r]) \/ Len(initial[r]) < 30 ) =>
            /\ calls[r].retry = 1
            /\ pc[r] \in {"retrying", "done"}
            /\ pc[r] = "retrying" => retry[r] = NoCall
            /\ pc[r] = "done" =>
                 /\ retry[r] # NoCall
                 /\ gated[r] = IF RetryText(retry[r]) # << >>
                               THEN RetryText(retry[r])
                               ELSE initial[r]

\* an answer with an evasive phrase in mixed case was replaced by the retry
C5_Witness ==
    \E r \in RequestIds :
        /\ pc[r] = "done"
        /\ context[r] # << >>
        /\ initial[r] = TextEvasive
        /\ Len(initial[r]) >= 30
        /\ retry[r] = Reply(Str(Text30))
        /\ gated[r] = Text30
        /\ calls[r].retry = 1

\* a short answer was kept because the retry returned only blanks
C5_WitnessKept ==
    \E r \in RequestIds :
        /\ pc[r] = "done"
        /\ context[r] # << >>
        /\ initial[r] = Text29
        /\ retry[r] = Reply(Str(<<" ", " ">>))
        /\ gated[r] = Text29

\* C6: in every success response whose retrieval result has at least one
\* candidate file, the final answer has a sources section that
\* hasSourcesSection recognises, wherever the answer came from.
C6_SourcesSectionPresent ==
    \A r \in RequestIds :
        (pc[r] = "done" /\ response[r].body.ok /\ Len(files[r]) >= 1) =>
            hasSourcesSection(response[r].body.answer.s)

\* a model answer without sources heading got one appended
C6_Witness ==
    \E r \in RequestIds :
        /\ pc[r] = "done"
        /\ response[r].body.ok
        /\ Len(files[r]) >= 1
        /\ gated[r] = Text30
        /\ ~hasSourcesSection(gated[r])
        /\ response[r].body.answer.s # gated[r]
        /\ hasSourcesSection(response[r].body.answer.s)

\* the keys of the catch block's body
FailureKeys == {"ok", "error", "status", "details"}

\* C7 as first stated: every failure response, the validation failure
\* included, has the body { ok: false, error, status, details } with status
\* a number and details an object or null, and the HTTP status equals the
\* body's status, which is the failure's status or 500.
C7_FailureShapeEverywhere ==
    \A r \in RequestIds :
        (pc[r] = "done" /\ ~response[r].body.ok) =>
            /\ DOMAIN response[r].body = FailureKeys
            /\ response[r].body.status.t = "number"
            /\ response[r].body.details.t \in {"object", "null"}
            /\ response[r].http = response[r].body.status.n
            /\ response[r].http \in {500} \cup
                 (IF caught[r].status.t = "number" THEN {caught[r].status.n} ELSE {})

\* C7, amended: a failure response of the catch block (a retrieval or an
\* internal failure) has the body { ok: false, error, status, details };
\* status is a number and equals the HTTP status, which is the failure's
\* status or 500; details is the parsed body of the proxy's error reply
\* when that is truthy - an object when the proxy sent an object or an
\* empty body - and null otherwise.  The validation failure is HTTP 400
\* with the body { ok: false, error } alone.
C7_FailureShape ==
    \A r \in RequestIds :
        (pc[r] = "done" /\ ~response[r].body.ok) =>
            IF BadQuery(r)
            THEN /\ DOMAIN response[r].body = {"ok", "error"}
                 /\ response[r].http = 400
                 /\ response[r].body.error = Str(MissingQuery)
            ELSE /\ DOMAIN response[r].body = FailureKeys
                 /\ response[r].body.error.t = "string"
                 /\ response[r].body.status.t = "number"
                 /\ response[r].http = response[r].body.status.n
                 /\ response[r].http =
                      IF reply[r].k = "response" /\ ~RespOk(reply[r].status)
                         /\ reply[r].raw # "invalid"
                      THEN reply[r].status
                      ELSE 500
                 /\ response[r].body.details =
                      IF reply[r].k = "response" /\ ~RespOk(reply[r].status)
                         /\ reply[r].raw = "json" /\ Truthy(reply[r].value)
                      THEN reply[r].value
                      ELSE IF reply[r].k = "response" /\ ~RespOk(reply[r].status)
                              /\ reply[r].raw = "empty"
                           THEN Obj([snippets |-> Undef, topFiles |-> Undef])
                           ELSE Null
                 /\ (reply[r].k = "response" /\ reply[r].raw = "json"
                       /\ reply[r].value.t = "object") =>
                      response[r].body.details.t \in {"object", "null"}

\* the proxy answered 404 with an object and the catch block reported both
C7_Witness ==
    \E r \in RequestIds :
        /\ pc[r] = "done"
        /\ ~response[r].body.ok
        /\ reply[r].k = "response"
        /\ reply[r].status = 404
        /\ DOMAIN response[r].body = FailureKeys
        /\ response[r].body.status = Num(404)
        /\ response[r].body.details.t = "object"

\* a validation failure was answered with ok and error alone
C7_WitnessValidation ==
    \E r \in RequestIds :
        /\ pc[r] = "done"
        /\ BadQuery(r)
        /\ DOMAIN response[r].body = {"ok", "error"}

\* the prefix the request supplies, trimmed, or nothing
SuppliedPrefix(r) ==
    IF body[r].pathPrefix.t = "string" THEN trim(body[r].pathPrefix.s) ELSE << >>

\* C8: the retrieval request uses the request's pathPrefix if it is present
\* and non-empty once trimmed, and the process-wide default prefix
\* otherwise (absent, empty, blank); the pathPrefix field is left out of
\* the retrieval body exactly when the resolved value is empty.
C8_PathPrefixResolution ==
    \A r \in RequestIds :
        calls[r].retrieve >= 1 =>
            LET resolved == IF SuppliedPrefix(r) # << >>
                            THEN SuppliedPrefix(r)
                            ELSE trim(config.DEFAULT_PATH_PREFIX.s)
            IN  /\ resolved = << >> <=> "pathPrefix" \notin DOMAIN retrieveBody[r]
                /\ resolved # << >> =>
                     /\ "pathPrefix" \in DOMAIN retrieveBody[r]
                     /\ retrieveBody[r].pathPrefix = Str(resolved)

\* C9: the topK sent to the proxy is the request's value whenever that
\* value coerces to a positive number, and the configured default
\* otherwise (absent, zero, negative, not numeric); it is always a positive
\* number.
C9_TopKResolution ==
    \A r \in RequestIds :
        calls[r].retrieve >= 1 =>
            LET k == Number(body[r].topK)
                sent == retrieveBody[r].topK
            IN  /\ sent = IF k.t = "number" /\ k.n > 0
                          THEN k
                          ELSE Number(config.TOP_K_DEFAULT)
                /\ sent.t = "number"
                /\ sent.n > 0

\* C10: a request issues at most one retry call, and none when the context
\* is empty or the initial answer is neither evasive nor shorter than 30
\* characters; it issues at most one retrieval, one completion and one
\* retry call, three in all, each only after the one before; what the
\* retry returns is taken as the answer without passing the gate again.
C10_AtMostOneRetry ==
    \A r \in RequestIds :
        /\ calls[r].retrieve <= 1
        /\ calls[r].completion <= calls[r].retrieve
        /\ calls[r].retry <= calls[r].completion
        /\ TotalCalls(r) <= 3
        /\ ( /\ completion[r] # NoCall
             /\ \/ context[r] = << >>
                \/ ~HoldsEvasivePhrase(initial[r]) /\ Len(initial[r]) >= 30 ) =>
              /\ calls[r].retry = 0
              /\ pc[r] = "done"
        /\ retry[r] # NoCall =>
              /\ pc[r] = "done"
              /\ calls[r].retry = 1
              /\ RetryText(retry[r]) # << >> => gated[r] = RetryText(retry[r])

\* a retry returned an evasive answer: it is the answer, after three calls
C10_Witness ==
    \E r \in RequestIds :
        /\ pc[r] = "done"
        /\ retry[r] = Reply(Str(TextEvasive))
        /\ gated[r] = TextEvasive
        /\ HoldsEvasivePhrase(gated[r])
        /\ TotalCalls(r) = 3

\* no retry was made for a short answer because the context was empty
C10_WitnessNoContext ==
    \E r \in RequestIds :
        /\ pc[r] = "done"
        /\ response[r].body.ok
        /\ context[r] = << >>
        /\ initial[r] = Text29
        /\ calls[r].retry = 0

\* the state of request q, but for what is shared
OwnState(q) ==
    <<pc[q], body[q], retrieveBody[q], timer[q], reply[q], calls[q], inflight[q], retrieve[q],
      caught[q], sn[q], files[q], context[q], completion[q], retry[q], initial[q], gated[q],
      response[q]>>

\* within a request the calls follow one another
CallsInOrder ==
    \A r \in RequestIds :
        /\ Cardinality(inflight[r]) <= 1
        /\ inflight[r] \subseteq {"retrieve", "completion", "retry"}
        /\ "retrieve" \in inflight[r] <=> (calls[r].retrieve = 1 /\ reply[r] = NoCall)
        /\ "completion" \in inflight[r] <=>
              (calls[r].completion = 1 /\ completion[r] = NoCall)
        /\ "retry" \in inflight[r] <=> (calls[r].retry = 1 /\ retry[r] = NoCall)
        /\ calls[r].completion >= 1 =>
              /\ "retrieve" \notin inflight[r]
              /\ RetrievalSucceeded(r)
        /\ RetrievalFailed(r) => (pc[r] = "done" /\ calls[r].completion = 0)
        /\ calls[r].retry >= 1 =>
              /\ "completion" \notin inflight[r]
              /\ completion[r] # NoCall
        /\ pc[r] = "done" => inflight[r] = {}

\* a step of one request leaves every other request as it was
OneRequestPerStep ==
    \A r \in RequestIds :
        OwnState(r)' # OwnState(r) =>
            \A q \in RequestIds \ {r} : OwnState(q)' = OwnState(q)

\* C11: within one request the retrieval call has settled (with a result,
\* or by failing the request) before the completion call is issued, and
\* the completion call has settled before the retry call is issued: a
\* request never has two outbound calls in flight; the steps of concurrent
\* requests interleave and a step of one request changes nothing of another.
C11_CallsInOrder == [](CallsInOrder) /\ [][OneRequestPerStep]_vars

\* one request waits for its retry while the other waits for its retrieval
C11_Witness ==
    /\ inflight[1] = {"retry"}
    /\ inflight[2] = {"retrieve"}
    /\ pc[1] = "retrying"
    /\ pc[2] = "retrieving"

\* the later request has been answered while the earlier still waits
C11_WitnessOvertaken ==
    /\ inflight[1] = {"completion"}
    /\ pc[2] = "done"
    /\ response[2].body.ok
    /\ calls[2].retry = 1

\* a call of request r is in flight
Awaiting(r) == inflight[r] # {}

\* the call in flight has an armed timer (the handler has no timer but
\* that of fetchJson)
CallsTimed == \A r \in RequestIds : Awaiting(r) => timer[r] = "armed"

\* once the fetcher has settled, on whatever outcome, its timer is cleared
TimerCleared == \A r \in RequestIds : reply[r] # NoCall => timer[r] = "cleared"

\* a request waiting for a call is eventually answered
EventuallyAnswered == \A r \in Serial : Awaiting(r) ~> (pc[r] = "done")

\* C12: every outbound call of a request (retrieval, completion, retry) is
\* bound to a timeout, so that a request whose collaborator never replies
\* is still answered; and the timer of the fetcher is cleared on every
\* outcome of the fetch.
C12_EveryCallTimesOut == [](CallsTimed) /\ EventuallyAnswered /\ [](TimerCleared)

\* the retrieval call alone: it is timed while in flight and a request
\* waiting for it leaves that wait
RetrievalTimesOut ==
    /\ [](\A r \in RequestIds : "retrieve" \in inflight[r] => timer[r] = "armed")
    /\ \A r \in Serial : (pc[r] = "retrieving") ~> (pc[r] # "retrieving")

\* a line of the answer opens, after white space, with one or two stars and
\* the word "fuentes" in any case: the answer has a sources heading
HasSourcesHeading(answer) ==
    LET a == toLowerCase(answer)
        n == Len(a)
    IN  \E i \in 1..n :
          /\ i = 1 \/ a[i - 1] = "\n"
          /\ \E j \in i..n :
                /\ \A k \in i..(j - 1) : IsSpace(a[k])
                /\ a[j] = "*"
                /\ \E w \in {j + 1, j + 2} :
                      /\ w = j + 2 => (j + 1 <= n /\ a[j + 1] = "*")
                      /\ MatchAt(a, Fuentes, w)

\* the number of sources headings of an answer
SourcesHeadings(answer) ==
    LET a == toLowerCase(answer)
    IN  Cardinality({w \in 1..Len(a) : MatchAt(a, <<"*">> \o Fuentes, w)})

\* the answer the model gave is the final answer
ModelAnswered(r) == pc[r] = "done" /\ response[r].body.ok /\ gated[r] # << >>

\* the fallback composer gave the final answer
FallbackAnswered(r) == pc[r] = "done" /\ response[r].body.ok /\ gated[r] = << >>

\* C13: source-section enforcement never duplicates a sources section: an
\* answer of the model that already has a sources heading, and any answer
\* when the file list is empty, is the final answer unchanged; enforcing
\* once more changes nothing; and the fallback composer's answer, which ends
\* with its own sources section, is final as composed.
C13_NoDuplicateSources ==
    \A r \in RequestIds :
        /\ ModelAnswered(r) =>
              LET final == response[r].body.answer.s
              IN  /\ (HasSourcesHeading(gated[r]) \/ Len(files[r]) = 0) => final = gated[r]
                  /\ appendSourcesIfMissing(final, files[r]) = final
        /\ FallbackAnswered(r) =>
              LET final == response[r].body.answer.s
              IN  /\ final = buildFallbackFromSnippets(sn[r], files[r])
                  /\ HasSourcesHeading(final)
                  /\ SourcesHeadings(final) = 1

\* the same with the headings hasSourcesSection detects
NoDuplicateOfDetected ==
    \A r \in RequestIds :
        /\ ModelAnswered(r) =>
              LET final == response[r].body.answer.s
              IN  /\ (hasSourcesSection(gated[r]) \/ Len(files[r]) = 0) => final = gated[r]
                  /\ appendSourcesIfMissing(final, files[r]) = final
        /\ FallbackAnswered(r) =>
              LET final == response[r].body.answer.s
              IN  /\ final = buildFallbackFromSnippets(sn[r], files[r])
                  /\ hasSourcesSection(final)
                  /\ SourcesHeadings(final) = 1

\* an answer with a sources heading was given a second one
DuplicatedSources ==
    \E r \in RequestIds :
        /\ ModelAnswered(r)
        /\ gated[r] = TextSourcesColon
        /\ SourcesHeadings(gated[r]) = 1
        /\ SourcesHeadings(response[r].body.answer.s) = 2

====
